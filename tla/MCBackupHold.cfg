SPECIFICATION Spec
CONSTANTS
    Writer = {1, 2}
    StopRank <- Ranks
    Unconfirmed = {"phase", "hold"}
    MaxFaults = 3
    EffectLimit = 4
    MaxMishaps = 3
INVARIANT
    OneLiveCopy
CHECK_DEADLOCK FALSE
