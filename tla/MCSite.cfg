SPECIFICATION SiteSpec
CONSTANTS
    MaxEntries = 4
    MaxTravels = 2
    MaxBacks = 1
    Paths = {1, 2}
    CacheSize = 1
    MaxFetches = 2
    MaxChanges = 1
    Keys = {"all", "filtered"}
    Listings <- MCListings
    PageSize = 1
    MaxVersion = 1
    EditorLives = {1, 2}
    Contents = {1, 2}
    MaxWrites = 1
    MaxOthers = 1
    ListedLives = {1, 2, 3}
    Blocks = {1, 2}
    ListDays = {1, 3}
    Today = 2
    RowsPerPage = 1
    TourSongs = {1, 2}
    MaxRows = 2
    MaxStops <- MCMaxStops
    Tabs = {1, 2}
    Users = {1, 2}
    Calls = {1, 2}
    MaxSessions = 2
    MaxSent = 4
INVARIANTS
    CatalogIsNotOlder
    CardsAreCurrent
    ReportedWasWritten
    ConfirmedForItsLive
    EveryLiveListedOnce
    ChangesAreTold
    WritesKeepTheirUser
PROPERTY
    DraftsLeftByConsent
CHECK_DEADLOCK FALSE
