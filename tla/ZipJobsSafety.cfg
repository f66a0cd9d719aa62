SPECIFICATION Spec
CONSTANTS
    d1 = d1
    Folder = {d1,d2}
    Root = Root
    Below <- MCBelow
    File = {f1}
    Size <- MCSize
    Job = {j1,j2}
    NoJob = NoJob
    Worker = {w1,w2}
    Client = {c1}
    Faults = {"db", "bucket", "crash"}
    Edits = {"rmdir"}
SYMMETRY Symmetric
INVARIANTS ReadyHasArchive ExclusiveBuild
PROPERTIES ArchiveStable KeepsPromise
