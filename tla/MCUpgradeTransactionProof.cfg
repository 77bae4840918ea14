SPECIFICATION FairSpec
CONSTANT MaxFaults = 1
INVARIANT ProofRetained
CHECK_DEADLOCK FALSE
