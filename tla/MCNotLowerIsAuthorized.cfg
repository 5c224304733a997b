CONSTANTS
    base = base
    appOnly = appOnly
    oneMore = oneMore
    twoMore = twoMore
    Baseline = base
    Versions = {appOnly, oneMore, twoMore}
    Sql <- SqlTrees
    MaxFaults = 2
SPECIFICATION Spec
INVARIANT NotLowerIsAuthorized
