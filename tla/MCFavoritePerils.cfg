CONSTANTS
    Lives = {l1}
    Slots = {s1, s2, s3}
    Perils <- AllPerils
    MaxClicks = 3
    MaxFaults = 2
    MaxSnapshots = 2
SPECIFICATION FairSpec
INVARIANT SpinnerHasRequest
PROPERTY SpinnersEnd
CHECK_DEADLOCK FALSE
