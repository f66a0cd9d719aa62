\* Three files, two empty or used folders with the same path, every fault.
SPECIFICATION FairSpec
CONSTANTS
    f1 = f1
    f2 = f2
    f3 = f3
    d1 = d1
    d2 = d2
    File = {f1, f2, f3}
    Folder = {d1, d2}
    Root = Root
    Rel <- MCRel
    Stem = {"a", "b"}
    Dir = "/"
    Placings <- MCPlacings
    Rank <- MCRank
    Filters <- MCFilters
    Buffer = 2
    Faults = {"db", "bucket", "client"}
INVARIANTS DistinctNames NoSilentLoss
PROPERTIES AllOrNothing BothEnd
CHECK_DEADLOCK FALSE
