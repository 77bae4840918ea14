SPECIFICATION Spec
CONSTANTS
    Writer = {1, 2}
    StopRank <- Ranks
    Unconfirmed = {"phase"}
    MaxFaults = 5
    EffectLimit = 4
    MaxMishaps = 4
INVARIANTS
    TypeOK
    CaptureQuiesced
    PowerFollowsGraph
    CommandFenced
    RecordMatchesNative
    OneLiveCopy
PROPERTIES
    RestoredWhenRunning
    WritersReturn
    GroupReturns
CHECK_DEADLOCK FALSE
