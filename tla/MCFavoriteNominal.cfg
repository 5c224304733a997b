CONSTANTS
    Lives = {l1, l2}
    Slots = {s1, s2}
    Perils <- NoPerils
    MaxClicks = 4
    MaxFaults = 2
    MaxSnapshots = 2
SPECIFICATION FairSpec
INVARIANTS
    SingleFlight
    QuietStarsAgree
PROPERTIES
    StarsFollowClicks
    LastWishLands
CHECK_DEADLOCK FALSE
