SPECIFICATION Spec
CONSTANTS
    N = 1
    Powers = {"compose"}
    FaultKind <- OnlyCancel
    MaxFaults = 1
INVARIANTS
    CanceledActivationRecovers
