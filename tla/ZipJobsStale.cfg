SPECIFICATION Spec
CONSTANTS
    d1 = d1
    Folder = {d1}
    Root = Root
    Below <- MCBelow
    File = {f1,f2}
    Size <- MCSize
    Job = {j1,j2}
    NoJob = NoJob
    Worker = {w1}
    Client = {c1}
    Faults = {}
    Edits = {"upload", "move"}
PROPERTIES ServedMatches
