CONSTANTS
    Lives = {l1, l2}
    Slots = {s1, s2}
    Perils <- NoPerils
    MaxClicks = 2
    MaxFaults = 1
    MaxSnapshots = 1
SPECIFICATION Spec
INVARIANT LeftoverWishIsPending
CHECK_DEADLOCK FALSE
