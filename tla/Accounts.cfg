\* Two servers that boot, and two tabs of one browser.
SPECIFICATION Spec
CONSTANTS
    a1 = a1
    a2 = a2
    p1 = p1
    p2 = p2
    r1 = r1
    r2 = r2
    k1 = k1
    b1 = b1
    b2 = b2
    User = {a1, a2}
    First = a1
    Password = {p1, p2}
    Initial = p1
    Key = {k1}
    Server = {b1, b2}
    Req = {r1, r2}
    Asks <- MCAsks
    None = None
    MaxFaults = 1
    Faults = {"db", "crash"}
INVARIANTS AnswersAreTrue RoleWasGiven
PROPERTIES LogoutSticks BootEnds
