SPECIFICATION Spec
CONSTANTS
    a = a
    b = b
    Caller = {a, b}
    Retrier = a
    Child = {1, 2, 3}
    Rank <- Ranks
    Critical = {3}
    Platform = {2}
    MaxDisturbances = 4
    MaxEpoch = 3
    Lease = {"first", "second"}
    Operator = {"operator1", "operator2"}
    Update = {"update1", "update2"}
    Guard = {"guard1", "guard2"}
INVARIANTS
    ExecutionFenced
    AnswerIsTrue
    PlatformFirst
    CurrentResolutionOnly
    RebootInterruptsNothing
PROPERTY
    OperationSettles
CHECK_DEADLOCK FALSE
