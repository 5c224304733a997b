CONSTANTS
    Clients = {c1, c2}
    MaxRequests = 3
    Lives = {1, 2}
    Bands = {1, 2, 3, 4}
    RegularBands = {1, 2, 3}
    Names = {"n1", "n2", "n3", "n4"}
    FirstNames <- MCFirstNames
    Users = {u}
    Days = {1, 2}
    Today = 1
    MaxVersions = 3
    CollectionIds = {1, 2}
    Venues = {1, 2}
    Localities = {1, 2}
    Songs = {1, 2, 3, 4, 5}
    SongGroups = {1, 2, 3, 4}
    Albums = {1, 2}
    Scenarios <- LiveScenarios
SPECIFICATION Spec
SYMMETRY ClientSymmetry
INVARIANT HandoverAtItsLive
CHECK_DEADLOCK FALSE
