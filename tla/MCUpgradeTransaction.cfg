SPECIFICATION FairSpec
CONSTANT MaxFaults = 5
INVARIANT PriorNeverOpensChangedData
INVARIANT SettledNamesRelease
PROPERTY SignsAsAgreed
PROPERTY SettlesUnlessRefused
PROPERTY RefusedStaysActive
\* A settled upgrade really stops.
CHECK_DEADLOCK FALSE
