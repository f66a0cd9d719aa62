SPECIFICATION FairSpec
CONSTANTS
    d1 = d1
    Folder = {d1}
    Root = Root
    Below <- MCBelow
    File = {f1}
    Size <- MCSize
    Job = {j1,j2}
    NoJob = NoJob
    Worker = {w1}
    Client = {c1}
    Faults = {"bucket", "crash"}
    Edits = {"move"}
INVARIANTS RunningIsBuilt
PROPERTIES JobsSettle PollingEnds OffersReclaimed
