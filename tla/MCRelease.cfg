CONSTANTS
    base = base
    appOnly = appOnly
    oneMore = oneMore
    twoMore = twoMore
    Baseline = base
    Versions = {appOnly, oneMore, twoMore}
    Sql <- SqlTrees
    MaxFaults = 2
SPECIFICATION FairSpec
INVARIANTS
    TypeOK
    SchemaCoversCode
    ActiveReleaseIntact
    AttestedSchemaHolds
    CandidateKeptForRetry
    HealthyCandidateFinalizes
PROPERTIES
    ImplementsPolicy
    RetryConverges
