CONSTANTS
    Lives = {l1}
    Slots = {s1, s2}
    Perils <- Overlap
    MaxClicks = 2
    MaxFaults = 0
    MaxSnapshots = 1
SPECIFICATION Spec
INVARIANT SingleFlight
CHECK_DEADLOCK FALSE
