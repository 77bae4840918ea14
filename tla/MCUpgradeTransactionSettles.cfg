SPECIFICATION FairSpec
CONSTANT MaxFaults = 2
PROPERTY UpgradeSettles
CHECK_DEADLOCK FALSE
