\* Two requests at a time on a chain of four folders and one file; two links.
SPECIFICATION Spec
CONSTANTS
    d1 = d1
    d2 = d2
    d3 = d3
    d4 = d4
    f1 = f1
    u1 = u1
    u2 = u2
    r1 = r1
    r2 = r2
    Folder = {d1, d2, d3, d4}
    Chain <- MCChain
    File = {f1}
    None = None
    MaxShares = 2
    User = {u1, u2}
    Admin = {u2}
    Req = {r1, r2}
    Asks <- MCAsks
    MaxWalk = 2
    ViewBound = 1
    Faults = {"db"}
INVARIANTS TypeOK SharedOnly RefusalHasReason SingleActive
